---- MODULE Spec2Model ----
(***************************************************************************)
(* Model of the batched-fetch engine of appvocai-acquire:                  *)
(*   - RequestAppDataGen   (src/appstorestream/domain/request/appdata.py)  *)
(*   - ASession.make_request (src/appstorestream/infra/web/asession.py)    *)
(***************************************************************************)
EXTENDS Integers, Sequences, FiniteSets, TLC

\* ------------------------------------------------------------------------
\* Bounds of the model
\* ------------------------------------------------------------------------
MaxRequests == 3

MaxBatch == 3

MaxStart == 1

MaxRetries == 3

\* The two generator objects of a run: 1 is the original generator, 2 is the
\* generator re-constructed from the bookmark of 1.
Gens == {1, 2}

MaxTasks == 2

MaxBatchRetries == 1

MaxConcurrency == 2

MaxRate == 2

MaxLimit == 3

MaxCooldown == 2

\* The longest cool-down a breaker grows to.
MaxWait == 4

\* The most batches a driver keeps admitted and unreported.
MaxOutstanding == 2

\* The most drop_database calls made on one MySQLDBA object.
MaxDrops == 2

\* The largest database.retries configured.
MaxDbRetries == 2

\* The most connect() calls made on one MySQLDatabase object.
MaxConnects == 2

\* The get() calls that can be in progress on one session object.
Calls == {1, 2}

\* The make_request coroutines a run can create.
TaskIds == 1..MaxTasks

VARIABLES gen, last, issued, stopped, resumed, session, req, metrics,
          limits, call, tasks, cb, dba, db

genvars == <<gen, last, issued, stopped, resumed>>

reqvars == <<session, req, metrics>>

batchvars == <<limits, call, tasks>>

dbvars == <<dba, db>>

vars == <<gen, last, issued, stopped, resumed, session, req, metrics,
          limits, call, tasks, cb, dba, db>>

\* ------------------------------------------------------------------------
\* RequestAppDataGen
\* ------------------------------------------------------------------------

\* Python's builtin min on two integers.
Min(a, b) == IF a <= b THEN a ELSE b

\* A generator object that has not been constructed yet.
NoGen ==
  [built |-> FALSE, max_requests |-> 0, batch_size |-> 0, start_page |-> 0,
   current_page |-> 0, request_count |-> 0]

\* RequestAppData(genreId, current_page): the part of the request that
\* identifies the page.
RequestAppData(page) == [current_page |-> page]

\* RequestAppData.limit: the page size every generated request carries.
Limit == 200

ParamsOffsetIsPage(request) ==
  [limit |-> Limit, offset |-> request.current_page]

\* RequestAppData.params: the pagination part of the query parameters.
Params(request) ==
  [limit |-> Limit, offset |-> request.current_page * Limit]

NewGenCursorZero(M, B, s) ==
  [built |-> TRUE, max_requests |-> M, batch_size |-> B, start_page |-> s,
   current_page |-> 0, request_count |-> 0]

\* RequestAppDataGen.__init__
NewGen(M, B, s) ==
  [built |-> TRUE, max_requests |-> M, batch_size |-> B, start_page |-> s,
   current_page |-> s, request_count |-> 0]

BookmarkLastIssued(self) == IF self.current_page > self.start_page
                            THEN self.current_page - 1
                            ELSE self.current_page

\* RequestAppDataGen.bookmark
Bookmark(self) == self.current_page

ExhaustedEarly(self) ==
  self.request_count + self.batch_size > self.max_requests

\* the test guarding StopIteration
Exhausted(self) == self.request_count >= self.max_requests

CurrentBatchSizeNoClamp(self) == self.batch_size

\* current_batch_size = min(batch_size, max_requests - request_count)
CurrentBatchSize(self) ==
  LET requests_remaining == self.max_requests - self.request_count
  IN  Min(self.batch_size, requests_remaining)

RECURSIVE ForPagesNoAdvance(_, _, _)
ForPagesNoAdvance(page, stop, st) ==
  IF page >= stop THEN st
  ELSE ForPagesNoAdvance(page + 1, stop,
         [self |-> [st.self EXCEPT !.request_count = @ + 1],
          requests |-> Append(st.requests, RequestAppData(page))])

RECURSIVE ForPagesCountOnce(_, _, _)
ForPagesCountOnce(page, stop, st) ==
  IF page >= stop THEN st
  ELSE ForPagesCountOnce(page + 1, stop,
         [self |-> [st.self EXCEPT !.current_page = @ + 1,
                                   !.request_count =
                                      IF st.requests = <<>> THEN @ + 1 ELSE @],
          requests |-> Append(st.requests, RequestAppData(page))])

\* for current_page in range(batch_start_page, batch_stop_page): one request
\* per page, the cursor and the request count advance once per request.
RECURSIVE ForPages(_, _, _)
ForPages(page, stop, st) ==
  IF page >= stop THEN st
  ELSE ForPages(page + 1, stop,
         [self |-> [st.self EXCEPT !.current_page = @ + 1,
                                   !.request_count = @ + 1],
          requests |-> Append(st.requests, RequestAppData(page))])

GenStepRewind(self) ==
  IF Exhausted(self)
  THEN [self |-> [self EXCEPT !.current_page = self.start_page,
                              !.request_count = 0],
        raised |-> TRUE, requests |-> <<>>]
  ELSE LET batch_start_page == self.current_page
           batch_stop_page  == batch_start_page + CurrentBatchSize(self)
           st == ForPages(batch_start_page, batch_stop_page,
                          [self |-> self, requests |-> <<>>])
       IN  [self |-> st.self, raised |-> FALSE, requests |-> st.requests]

GenStepSkipOnStop(self) ==
  IF Exhausted(self)
  THEN [self |-> [self EXCEPT !.current_page = @ + 1],
        raised |-> TRUE, requests |-> <<>>]
  ELSE LET batch_start_page == self.current_page
           batch_stop_page  == batch_start_page + CurrentBatchSize(self)
           st == ForPages(batch_start_page, batch_stop_page,
                          [self |-> self, requests |-> <<>>])
       IN  [self |-> st.self, raised |-> FALSE, requests |-> st.requests]

\* RequestAppDataGen.__next__: the generator after the call, whether
\* StopIteration was raised, and the requests of the returned batch.
GenStep(self) ==
  IF Exhausted(self)
  THEN [self |-> self, raised |-> TRUE, requests |-> <<>>]
  ELSE LET batch_start_page == self.current_page
           batch_stop_page  == batch_start_page + CurrentBatchSize(self)
           st == ForPages(batch_start_page, batch_stop_page,
                          [self |-> self, requests |-> <<>>])
       IN  [self |-> st.self, raised |-> FALSE, requests |-> st.requests]

\* The record kept of the latest __next__ call on a generator.
NoCall == [kind |-> "none", requests |-> <<>>, cursor_before |-> 0,
           count_before |-> 0]

GenInit ==
  /\ \E M \in 0..MaxRequests, B \in 0..MaxBatch, s \in 0..MaxStart :
       gen = [g \in Gens |-> IF g = 1 THEN NewGen(M, B, s) ELSE NoGen]
  /\ last = [g \in Gens |-> NoCall]
  /\ issued = [g \in Gens |-> <<>>]
  /\ stopped = [g \in Gens |-> FALSE]
  /\ resumed = [done |-> FALSE, bookmark |-> 0, before |-> <<>>]

\* next(g) on a constructed generator.
GenNext(g) ==
  /\ gen[g].built
  /\ LET r == GenStep(gen[g])
     IN  /\ gen' = [gen EXCEPT ![g] = r.self]
         /\ last' = [last EXCEPT ![g] =
                       [kind |-> IF r.raised THEN "stop" ELSE "batch",
                        requests |-> r.requests,
                        cursor_before |-> gen[g].current_page,
                        count_before |-> gen[g].request_count]]
         /\ issued' = [issued EXCEPT ![g] = @ \o r.requests]
         /\ stopped' = [stopped EXCEPT ![g] = @ \/ r.raised]
  /\ UNCHANGED resumed

\* The caller reads the bookmark of generator 1 and constructs generator 2
\* with start_page equal to it.
Restart(M, B) ==
  /\ gen[1].built
  /\ ~gen[2].built
  /\ LET b == Bookmark(gen[1])
     IN  /\ gen' = [gen EXCEPT ![2] = NewGen(M, B, b)]
         /\ resumed' = [done |-> TRUE, bookmark |-> b, before |-> issued[1]]
  /\ UNCHANGED <<last, issued, stopped>>

GenActions ==
  \/ \E g \in Gens : GenNext(g)
  \/ \E M \in 0..MaxRequests, B \in 0..MaxBatch : Restart(M, B)

\* ------------------------------------------------------------------------
\* ASession.make_request
\* ------------------------------------------------------------------------

\* What one network call (client.get on a client built with
\* raise_for_status=True) can produce.
Ok200 == [kind |-> "http", status |-> 200, body |-> "json"]

Bad200 == [kind |-> "http", status |-> 200, body |-> "malformed"]

Err404 == [kind |-> "http", status |-> 404, body |-> "none"]

Err500 == [kind |-> "http", status |-> 500, body |-> "none"]

Transport == [kind |-> "transport", status |-> 0, body |-> "none"]

Responses == {Ok200, Bad200, Err404, Err500, Transport}

\* The local name e of make_request when no exception is bound to it.
Unbound == [bound |-> FALSE, type |-> "none", status |-> 0]

NoResult == [kind |-> "none", status |-> 0, exc |-> "none"]

\* The coroutine make_request before its first step.
NewRequest ==
  [pc |-> "start", retries |-> 0, gate |-> "out", e |-> Unbound,
   response |-> Ok200, result |-> NoResult, log |-> "none",
   attempts |-> 0, responses |-> <<>>, sleeps |-> <<>>, trace |-> <<>>]

\* ASession.__init__: the part of the session make_request reads.
NewSession(R) == [retries |-> R]

\* The branch of the except clause for ClientResponseError that is logged.
ErrorClass(exc) ==
  IF exc.type = "ClientResponseError"
  THEN IF 400 <= exc.status /\ exc.status < 500 THEN "ClientResponseError"
       ELSE IF 500 <= exc.status /\ exc.status < 600 THEN "ServerResponseError"
       ELSE "UnexpectedResponseError"
  ELSE IF exc.type = "ClientError" THEN "ClientError"
  ELSE "Unknown Error"

BackoffBeforeIncrement(retries) == 2 ^ (retries - 1)

\* asyncio.sleep(2**retries)
Backoff(retries) == 2 ^ retries

\* return <result> from inside "async with concurrency".
Return(r, result) ==
  [r EXCEPT !.pc = "done", !.gate = "released", !.result = result]

RaiseHoldingGate(r, exc) ==
  [r EXCEPT !.pc = "done",
            !.result = [kind |-> "raised", status |-> 0, exc |-> exc]]

\* An exception leaves make_request through "async with concurrency".
Raise(r, exc) ==
  Return(r, [kind |-> "raised", status |-> 0, exc |-> exc])

\* async with concurrency: the gate is taken once, before the loop.
EnterGate(r) == [r EXCEPT !.pc = "loop", !.gate = "held"]

\* One except clause followed by "retries += 1; await asyncio.sleep(2**retries)".
\* The name e is bound inside the clause and deleted when the clause ends.
Except(r, exc) ==
  LET inclause == [r EXCEPT !.e = [bound |-> TRUE, type |-> exc.type,
                                   status |-> exc.status],
                            !.log = ErrorClass(exc)]
      after    == [inclause EXCEPT !.e = Unbound]
      n        == after.retries + 1
  IN  [after EXCEPT !.retries = n,
                    !.sleeps = Append(@, Backoff(n)),
                    !.trace = Append(@, "sleep"),
                    !.pc = "sleep"]

\* The code after the while loop: ResponseError(return_code=e.status).
Exhaust(r) ==
  IF r.e.bound
  THEN Return(r, [kind |-> "failure", status |-> r.e.status, exc |-> "none"])
  ELSE Raise(r, "UnboundLocalError")

\* while retries < self._retries
LoopTest(s, r) ==
  IF r.retries < s.retries THEN [r EXCEPT !.pc = "send"] ELSE Exhaust(r)

\* await self._throttle.send() has returned
AfterSend(r) == [r EXCEPT !.pc = "get", !.trace = Append(@, "send")]

\* async with client.get(...) as response
AfterGet(r, resp) ==
  LET called == [r EXCEPT !.attempts = @ + 1,
                          !.responses = Append(@, resp),
                          !.trace = Append(@, "get")]
  IN  IF resp.kind = "transport"
      THEN Except(called, [type |-> "ClientError", status |-> 0])
      ELSE IF resp.status >= 400
      THEN Except(called, [type |-> "ClientResponseError",
                           status |-> resp.status])
      ELSE [called EXCEPT !.pc = "recv", !.response = resp]

\* await self._throttle.recv() has returned
AfterRecv(r) == [r EXCEPT !.pc = "delay", !.trace = Append(@, "recv")]

\* await self._throttle.delay() has returned; response.raise_for_status()
AfterDelay(r) ==
  LET delayed == [r EXCEPT !.trace = Append(@, "delay")]
  IN  IF delayed.response.status >= 400
      THEN Except(delayed, [type |-> "ClientResponseError",
                            status |-> delayed.response.status])
      ELSE [delayed EXCEPT !.pc = "json"]

\* return await response.json()
AfterJson(r) ==
  IF r.response.body = "json"
  THEN Return(r, [kind |-> "success", status |-> r.response.status,
                  exc |-> "none"])
  ELSE Except(r, [type |-> "Exception", status |-> 0])

\* asyncio.sleep has returned
AfterSleep(r) == [r EXCEPT !.pc = "loop"]

ReqInit ==
  /\ \E R \in 0..MaxRetries : session = NewSession(R)
  /\ req = NewRequest
  /\ metrics = [requests_total |-> 0, requests_successful_total |-> 0]

Enter ==
  /\ req.pc = "start"
  /\ req' = EnterGate(req)
  /\ UNCHANGED <<session, metrics>>

Loop ==
  /\ req.pc = "loop"
  /\ req' = LoopTest(session, req)
  /\ UNCHANGED <<session, metrics>>

ThrottleSend ==
  /\ req.pc = "send"
  /\ req' = AfterSend(req)
  /\ metrics' = [metrics EXCEPT !.requests_total = @ + 1]
  /\ UNCHANGED session

ClientGet(resp) ==
  /\ req.pc = "get"
  /\ req' = AfterGet(req, resp)
  /\ UNCHANGED <<session, metrics>>

ThrottleRecv ==
  /\ req.pc = "recv"
  /\ req' = AfterRecv(req)
  /\ UNCHANGED <<session, metrics>>

ThrottleDelay ==
  /\ req.pc = "delay"
  /\ req' = AfterDelay(req)
  /\ metrics' = IF req'.pc = "json"
                THEN [metrics EXCEPT !.requests_successful_total = @ + 1]
                ELSE metrics
  /\ UNCHANGED session

ResponseJson ==
  /\ req.pc = "json"
  /\ req' = AfterJson(req)
  /\ UNCHANGED <<session, metrics>>

Wake ==
  /\ req.pc = "sleep"
  /\ req' = AfterSleep(req)
  /\ UNCHANGED <<session, metrics>>

ReqActions ==
  \/ Enter
  \/ Loop
  \/ ThrottleSend
  \/ \E resp \in Responses : ClientGet(resp)
  \/ ThrottleRecv
  \/ ThrottleDelay
  \/ ResponseJson
  \/ Wake

\* ------------------------------------------------------------------------
\* ASessionAppData.get: one batch of make_request coroutines under
\* asyncio.gather
\* ------------------------------------------------------------------------

\* Python's builtin max on two integers.
Max(a, b) == IF a >= b THEN a ELSE b

CeilingSum(max_concurrency, max_rate) == max_concurrency + max_rate

\* self._max_concurrency = max(max_concurrency, throttle.max_rate)
Ceiling(max_concurrency, max_rate) == Max(max_concurrency, max_rate)

\* ASession.__init__: the concurrency settings of the session. has_request
\* tells whether the name self._make_request, which get() calls, resolves on
\* the session object; the class as written defines make_request only, so in
\* the source it does not.
NewLimits(max_concurrency, max_rate, has_request) ==
  [configured |-> max_concurrency, max_rate |-> max_rate,
   max_concurrency |-> Ceiling(max_concurrency, max_rate),
   has_request |-> has_request]

\* A coroutine slot no get() call has used yet.
NoTask == [owner |-> 0, params |-> 0, cancel |-> FALSE, r |-> NewRequest]

\* A get() call that has not been made yet.
IdleCall ==
  [state |-> "idle", param_list |-> <<>>, children |-> <<>>, sem |-> 0,
   completed |-> <<>>, results |-> <<>>, exc |-> "none", open |-> FALSE]

\* The coroutines created so far.
Used == {t \in TaskIds : tasks[t].owner # 0}

\* The children of a get() call, as a set.
ChildrenOf(c) == {t \in TaskIds : tasks[t].owner = c}

GatherAsCompleted(c) ==
  [i \in 1..Len(call[c].completed) |->
     [params |-> tasks[call[c].completed[i]].params,
      result |-> tasks[call[c].completed[i]].r.result]]

\* results = await asyncio.gather(*tasks): one result per awaitable, in the
\* order of the awaitables, whatever the order in which they completed.
Gather(c) ==
  [i \in 1..Len(call[c].children) |->
     [params |-> tasks[call[c].children[i]].params,
      result |-> tasks[call[c].children[i]].r.result]]

CatchesBaseException(exctype) == TRUE

\* "except Exception" catches the subclasses of Exception; CancelledError is
\* a BaseException (Python 3.8 and later) and passes through.
CaughtByExcept(exctype) ==
  exctype \in {"ClientResponseError", "ClientError", "Exception"}

\* An exception thrown into the coroutine at the await it is suspended in.
\* The try block covers send, get, recv, delay and json; the gate wait and the
\* backoff sleep are outside it.
Throw(r, exctype) ==
  IF r.pc \in {"send", "get", "recv", "delay", "json"} /\ CaughtByExcept(exctype)
  THEN Except(r, [type |-> exctype, status |-> 0])
  ELSE IF r.gate = "held"
  THEN Raise(r, exctype)
  ELSE [r EXCEPT !.pc = "done",
                 !.result = [kind |-> "raised", status |-> 0, exc |-> exctype]]

\* The responses a client can still give: after get() has left
\* "async with aiohttp.ClientSession" the client is closed and every call on
\* it fails.
ResponsesOf(c) == IF call[c].open THEN Responses ELSE {Transport}

BatchInit ==
  /\ \E mc \in 1..MaxConcurrency, rate \in 1..MaxRate, h \in BOOLEAN :
       limits = NewLimits(mc, rate, h)
  /\ call = [c \in Calls |-> IdleCall]
  /\ tasks = [t \in TaskIds |-> NoTask]

\* The batch variables of a run that makes no get() call.
BatchIdle ==
  /\ limits = NewLimits(1, 1, FALSE)
  /\ call = [c \in Calls |-> IdleCall]
  /\ tasks = [t \in TaskIds |-> NoTask]

SemaphoreConfigured(l) == l.configured

\* concurrency = asyncio.Semaphore(self._max_concurrency)
Semaphore(l) == l.max_concurrency

\* get(request) with n parameter dictionaries, up to "await asyncio.gather".
\* Evaluating self._make_request for the first parameter dictionary raises
\* AttributeError when the name does not resolve.
Get(c, n) ==
  /\ call[c].state = "idle"
  /\ n + Cardinality(Used) <= MaxTasks
  /\ LET k == Cardinality(Used)
         children == [i \in 1..n |-> k + i]
         param_list == [i \in 1..n |-> i]
     IN  IF n > 0 /\ ~limits.has_request
         THEN /\ call' = [call EXCEPT ![c] =
                            [@ EXCEPT !.state = "raised",
                                      !.param_list = param_list,
                                      !.sem = Semaphore(limits),
                                      !.exc = "AttributeError"]]
              /\ UNCHANGED tasks
         ELSE /\ call' = [call EXCEPT ![c] =
                            [@ EXCEPT !.state = "running",
                                      !.param_list = param_list,
                                      !.children = children,
                                      !.sem = Semaphore(limits),
                                      !.open = TRUE]]
              /\ tasks' = [t \in TaskIds |->
                             IF t > k /\ t <= k + n
                             THEN [owner |-> c, params |-> param_list[t - k],
                                   cancel |-> FALSE, r |-> NewRequest]
                             ELSE tasks[t]]
  /\ UNCHANGED <<limits, session, req, metrics>>

\* The coroutine without what no later step of the code reads: the records
\* kept of its past (responses received, sleeps, sequence of calls, last log
\* line, number of attempts), the response object outside the block that
\* uses it, and every local once the coroutine has ended.
Compact(r) ==
  LET live == [r EXCEPT !.responses = <<>>, !.log = "none", !.sleeps = <<>>,
                        !.trace = <<>>, !.attempts = 0]
  IN  IF live.pc = "done"
      THEN [live EXCEPT !.retries = 0, !.response = Ok200]
      ELSE IF live.pc \in {"recv", "delay", "json"}
      THEN live
      ELSE [live EXCEPT !.response = Ok200]

\* One step of coroutine t that takes it to nr: the semaphore of its call
\* follows the gate, and a coroutine that ends is noted as completed.
TaskStep(t, nr) ==
  LET c == tasks[t].owner
      took == IF tasks[t].r.gate # "held" /\ nr.gate = "held" THEN 1 ELSE 0
      gave == IF tasks[t].r.gate = "held" /\ nr.gate # "held" THEN 1 ELSE 0
  IN  /\ tasks' = [tasks EXCEPT ![t] =
                     [@ EXCEPT !.r = Compact(nr), !.cancel = FALSE]]
      /\ call' = [call EXCEPT ![c] =
                    [@ EXCEPT !.sem = @ - took + gave,
                              !.completed = IF nr.pc = "done"
                                            THEN Append(@, t) ELSE @]]
      /\ UNCHANGED <<limits, session, req>>

\* A coroutine that can take a normal step.
Runnable(t) ==
  /\ tasks[t].owner # 0
  /\ ~tasks[t].cancel

\* async with concurrency (the semaphore has a free slot), then the first
\* test of the while loop.
TaskEnter(t) ==
  /\ Runnable(t)
  /\ tasks[t].r.pc = "start"
  /\ call[tasks[t].owner].sem > 0
  /\ TaskStep(t, LoopTest(session, EnterGate(tasks[t].r)))
  /\ UNCHANGED metrics

TaskSend(t) ==
  /\ Runnable(t)
  /\ tasks[t].r.pc = "send"
  /\ TaskStep(t, AfterSend(tasks[t].r))
  /\ metrics' = [metrics EXCEPT !.requests_total = @ + 1]

TaskGet(t, resp) ==
  /\ Runnable(t)
  /\ tasks[t].r.pc = "get"
  /\ resp \in ResponsesOf(tasks[t].owner)
  /\ TaskStep(t, AfterGet(tasks[t].r, resp))
  /\ UNCHANGED metrics

TaskRecv(t) ==
  /\ Runnable(t)
  /\ tasks[t].r.pc = "recv"
  /\ TaskStep(t, AfterRecv(tasks[t].r))
  /\ UNCHANGED metrics

TaskDelay(t) ==
  /\ Runnable(t)
  /\ tasks[t].r.pc = "delay"
  /\ TaskStep(t, AfterDelay(tasks[t].r))
  /\ metrics' = IF AfterDelay(tasks[t].r).pc = "json"
                THEN [metrics EXCEPT !.requests_successful_total = @ + 1]
                ELSE metrics

TaskJson(t) ==
  /\ Runnable(t)
  /\ tasks[t].r.pc = "json"
  /\ TaskStep(t, AfterJson(tasks[t].r))
  /\ UNCHANGED metrics

\* asyncio.sleep returns, then the next test of the while loop.
TaskWake(t) ==
  /\ Runnable(t)
  /\ tasks[t].r.pc = "sleep"
  /\ TaskStep(t, LoopTest(session, AfterSleep(tasks[t].r)))
  /\ UNCHANGED metrics

\* The CancelledError of a cancelled gather reaches coroutine t at the await
\* it is suspended in.
TaskCancelled(t) ==
  /\ tasks[t].owner # 0
  /\ tasks[t].cancel
  /\ tasks[t].r.pc # "done"
  /\ TaskStep(t, Throw(tasks[t].r, "CancelledError"))
  /\ UNCHANGED metrics

\* Every child has returned: gather delivers the results, get() fills the
\* response and returns it.
GatherReturn(c) ==
  /\ call[c].state = "running"
  /\ \A t \in ChildrenOf(c) :
       tasks[t].r.pc = "done" /\ tasks[t].r.result.kind # "raised"
  /\ call' = [call EXCEPT ![c] = [@ EXCEPT !.state = "returned",
                                           !.results = Gather(c),
                                           !.open = FALSE]]
  /\ UNCHANGED <<tasks, limits, session, req, metrics>>

\* A child has raised: gather (return_exceptions is False) raises the first
\* such exception into get(), which leaves through the client's context
\* manager; the other children are not cancelled and keep running.
GatherRaise(c) ==
  /\ call[c].state = "running"
  /\ \E i \in 1..Len(call[c].completed) :
       /\ tasks[call[c].completed[i]].r.result.kind = "raised"
       /\ \A j \in 1..(i - 1) :
            tasks[call[c].completed[j]].r.result.kind # "raised"
       /\ call' = [call EXCEPT ![c] =
                     [@ EXCEPT !.state = "raised",
                               !.exc = tasks[call[c].completed[i]].r.result.exc,
                               !.open = FALSE]]
  /\ UNCHANGED <<tasks, limits, session, req, metrics>>

\* The task running get() is cancelled while it awaits gather: gather cancels
\* every child that has not ended.
Cancel(c) ==
  /\ call[c].state = "running"
  /\ call' = [call EXCEPT ![c] = [@ EXCEPT !.state = "cancelled",
                                           !.exc = "CancelledError",
                                           !.open = FALSE]]
  /\ tasks' = [t \in TaskIds |->
                 IF tasks[t].owner = c /\ tasks[t].r.pc # "done"
                 THEN [tasks[t] EXCEPT !.cancel = TRUE]
                 ELSE tasks[t]]
  /\ UNCHANGED <<limits, session, req, metrics>>

\* The steps of a session on which the get() calls cs are made.
BatchActions(cs) ==
  \/ \E c \in cs, n \in 0..MaxTasks : Get(c, n)
  \/ \E t \in TaskIds : TaskEnter(t)
  \/ \E t \in TaskIds : TaskSend(t)
  \/ \E t \in TaskIds, resp \in Responses : TaskGet(t, resp)
  \/ \E t \in TaskIds : TaskRecv(t)
  \/ \E t \in TaskIds : TaskDelay(t)
  \/ \E t \in TaskIds : TaskJson(t)
  \/ \E t \in TaskIds : TaskWake(t)
  \/ \E t \in TaskIds : TaskCancelled(t)
  \/ \E c \in cs : GatherReturn(c)
  \/ \E c \in cs : GatherRaise(c)
  \/ \E c \in cs : Cancel(c)

\* ------------------------------------------------------------------------
\* CircuitBreaker: core/enum.py declares its states; the gate and its
\* transitions are those of section 4.3 of the specification
\* ------------------------------------------------------------------------
CLOSED == "CLOSED"

OPEN == "OPEN"

HALF_OPEN == "HALF_OPEN"

TERMINATED == "TERMINATED"

COMPLETE == "COMPLETE"

CircuitBreakerStates == {CLOSED, OPEN, HALF_OPEN, TERMINATED, COMPLETE}

\* The failure-rate thresholds tried, in percent.
Thresholds == {0, 50}

\* The sizes of the batches reported: with the thresholds above their
\* failure rates fall below, on and above the threshold.
BatchSizes == {1, 2}

\* A breaker as configured: consecutive-failure-batch limit, cool-down
\* duration, failure-rate threshold, and whether the cool-down grows.
\* failures is the consecutive-failure-batch counter, wait the cool-down now
\* in force and timer the time spent in it; pending counts the batches
\* admitted in CLOSED and not reported yet, trial says whether the HALF_OPEN
\* trial batch is out.  verdict, retry_after, op and result record the last
\* admit() and report(); history (the last reports seen in CLOSED), worst
\* (the longest run of bad ones) and allowed (the Allowed verdicts given in
\* HALF_OPEN) are kept for the properties only.
NewBreaker(limit, cooldown, threshold, grow) ==
  [limit |-> limit, cooldown |-> cooldown, threshold |-> threshold,
   grow |-> grow, state |-> CLOSED, failures |-> 0, wait |-> cooldown,
   timer |-> 0, trial |-> "none", pending |-> 0, verdict |-> "none",
   retry_after |-> 0, op |-> "new", result |-> [n |-> 0, f |-> 0],
   history |-> <<>>, worst |-> 0, allowed |-> 0]

\* A batch of n requests of which f failed has a failure rate above threshold.
Exceeds(f, n, threshold) == f * 100 > threshold * n

CountedNoReset(failures, bad) == IF bad THEN failures + 1 ELSE failures

\* The consecutive-failure-batch counter after one more BatchResult.
Counted(failures, bad) == IF bad THEN failures + 1 ELSE 0

ReachedLimitLate(failures, limit) == failures > limit

ReachedLimit(failures, limit) == failures >= limit

\* The number of bad reports at the end of h.
RECURSIVE TrailingBad(_)
TrailingBad(h) ==
  IF h = <<>> \/ ~h[Len(h)] THEN 0
  ELSE 1 + TrailingBad(SubSeq(h, 1, Len(h) - 1))

\* h cut to the reports that can matter to a breaker.
Window(h) == IF Len(h) > MaxLimit THEN Tail(h) ELSE h

\* The cool-down after a failed trial.
Grown(b) == IF b.grow THEN Min(2 * b.wait, MaxWait) ELSE b.cooldown

MarkTrialNot(b) == b

\* The HALF_OPEN trial batch is out.
MarkTrial(b) == [b EXCEPT !.trial = "admitted"]

\* admit() -> Allowed | Blocked(retryAfter) | Stop
OnAdmit(b) ==
  LET said(v, after) ==
        [b EXCEPT !.verdict = v, !.retry_after = after, !.op = "admit"]
  IN  CASE b.state = CLOSED ->
             [said("Allowed", 0) EXCEPT !.pending = @ + 1]
        [] b.state = OPEN -> said("Blocked", b.wait - b.timer)
        [] b.state = HALF_OPEN ->
             IF b.trial = "none"
             THEN MarkTrial([said("Allowed", 0) EXCEPT
                               !.allowed = Min(@ + 1, 2)])
             ELSE said("Blocked", 0)
        [] OTHER -> said("Stop", 0)

\* report(batchResult) of a batch admitted in CLOSED.
OnReport(b, n, f) ==
  LET bad == Exceeds(f, n, b.threshold)
      count == Counted(b.failures, bad)
      h == Window(Append(b.history, bad))
      seen == [b EXCEPT !.pending = @ - 1, !.op = "report",
                        !.result = [n |-> n, f |-> f]]
  IN  IF b.state # CLOSED THEN seen
      ELSE LET counted == [seen EXCEPT !.failures = count, !.history = h,
                                       !.worst = Max(@, TrailingBad(h))]
           IN  IF ReachedLimit(count, b.limit)
               THEN [counted EXCEPT !.state = OPEN, !.timer = 0,
                                    !.wait = b.cooldown]
               ELSE counted

OnTrialAnyState(b, n, f) ==
  LET seen == [b EXCEPT !.trial = "none", !.op = "trial",
                        !.result = [n |-> n, f |-> f]]
  IN  IF f = 0
      THEN [seen EXCEPT !.state = CLOSED, !.failures = 0, !.timer = 0,
                        !.wait = b.cooldown, !.history = <<>>,
                        !.allowed = 0]
      ELSE [seen EXCEPT !.state = OPEN, !.timer = 0, !.wait = Grown(b)]

\* report(batchResult) of the trial batch.
OnTrial(b, n, f) ==
  LET seen == [b EXCEPT !.trial = "none", !.op = "trial",
                        !.result = [n |-> n, f |-> f]]
  IN  IF b.state # HALF_OPEN THEN seen
      ELSE IF f = 0
      THEN [seen EXCEPT !.state = CLOSED, !.failures = 0, !.timer = 0,
                        !.wait = b.cooldown, !.history = <<>>,
                        !.allowed = 0]
      ELSE [seen EXCEPT !.state = OPEN, !.timer = 0, !.wait = Grown(b)]

\* The stop signal: every state that is not terminal becomes TERMINATED.
OnStop(b) ==
  IF b.state \in {TERMINATED, COMPLETE} THEN b
  ELSE [b EXCEPT !.state = TERMINATED, !.op = "stop"]

\* One unit of the cool-down passes.
OnTick(b) ==
  LET later == [b EXCEPT !.timer = @ + 1, !.op = "tick"]
  IN  IF later.timer >= b.wait
      THEN [later EXCEPT !.state = HALF_OPEN, !.trial = "none",
                         !.allowed = 0]
      ELSE later

\* A breaker for every configuration of limits and durations.
CBInit ==
  \E limit \in 1..MaxLimit, cooldown \in 1..MaxCooldown,
     threshold \in Thresholds, grow \in BOOLEAN :
    cb = NewBreaker(limit, cooldown, threshold, grow)

Admit ==
  /\ cb.state = CLOSED => cb.pending < MaxOutstanding
  /\ cb' = OnAdmit(cb)

Report(n, f) ==
  /\ cb.pending > 0
  /\ cb' = OnReport(cb, n, f)

ReportTrial(n, f) ==
  /\ cb.trial = "admitted"
  /\ cb' = OnTrial(cb, n, f)

Tick ==
  /\ cb.state = OPEN
  /\ cb' = OnTick(cb)

\* The stop signal.
Stop == cb' = OnStop(cb)

\* The generator is exhausted and nothing is outstanding.
Complete ==
  /\ cb.state \in {CLOSED, HALF_OPEN}
  /\ cb.pending = 0
  /\ cb.trial = "none"
  /\ cb' = [cb EXCEPT !.state = COMPLETE, !.op = "complete"]

CBActions ==
  \/ Admit
  \/ \E n \in BatchSizes : \E f \in 0..n : Report(n, f)
  \/ \E n \in BatchSizes : \E f \in 0..n : ReportTrial(n, f)
  \/ Tick
  \/ Stop
  \/ Complete

\* ------------------------------------------------------------------------
\* MySQLDBA.drop_database (src/appvocai/infra/database/mysql.py)
\* Strings are sequences of characters.
\* ------------------------------------------------------------------------

\* The environments config.get_environment() returns.
Prod == <<"p", "r", "o", "d">>

Dev == <<"d", "e", "v">>

Environments == {Prod, Dev}

\* The dbname arguments tried.
DbNames == {<<"d", "b">>}

\* What the user types at the prompt for the database name.
TypedNames ==
  {<<"d", "b", "_", "p", "r", "o", "d">>,
   <<"d", "b", "_", "d", "e", "v">>,
   <<" ", "d", "b", "_", "d", "e", "v", " ">>,
   <<"D", "B", "_", "D", "E", "V">>,
   <<"d", "b">>,
   <<>>}

\* What the user types at the prompt for the confirmation.
TypedConfirms ==
  {<<"Y", "E", "S">>, <<"y", "e", "s">>, <<" ", "Y", "e", "s", " ">>,
   <<"Y">>, <<"N", "O">>, <<"Y", "E", "S", "!">>, <<>>}

\* str.strip() for the whitespace the inputs contain.
RECURSIVE Strip(_)
Strip(str) ==
  IF str = <<>> THEN str
  ELSE IF Head(str) = " " THEN Strip(Tail(str))
  ELSE IF str[Len(str)] = " " THEN Strip(SubSeq(str, 1, Len(str) - 1))
  ELSE str

\* str.upper() on one character, for the letters the inputs contain.
UpperChar(ch) ==
  CASE ch = "y" -> "Y"
    [] ch = "e" -> "E"
    [] ch = "s" -> "S"
    [] ch = "d" -> "D"
    [] ch = "b" -> "B"
    [] ch = "v" -> "V"
    [] ch = "p" -> "P"
    [] ch = "r" -> "R"
    [] ch = "o" -> "O"
    [] OTHER -> ch

\* str.upper()
Upper(str) == [i \in 1..Len(str) |-> UpperChar(str[i])]

\* MySQLDBA._format_dbname: f"{dbname}_{self._env}"
FormatDbname(dbname, env) == dbname \o <<"_">> \o env

\* The query drop_database hands to _execute_command.
DropQuery(dbname) == [statement |-> "DROP DATABASE IF EXISTS", dbname |-> dbname]

\* MySQLDBA.__init__ and the state of a drop_database call: the argument,
\* the formatted name, what input() returned at each prompt, the message
\* printed last and the commands executed so far.
NewDBA(env, safe_mode) ==
  [env |-> env, safe_mode |-> safe_mode, pc |-> "idle", calls |-> 0,
   arg |-> <<>>, dbname |-> <<>>, typed_name |-> <<>>, full_dbname |-> <<>>,
   typed_confirm |-> <<>>, confirm |-> <<>>, printed |-> "none",
   commands |-> <<>>]

\* not (self._safe_mode and self._env == "prod")
Permitted(d) == ~(d.safe_mode /\ d.env = Prod)

\* drop_database(dbname) up to the first input().
OnDrop(d, dbname) ==
  LET called == [d EXCEPT !.calls = @ + 1, !.arg = dbname, !.dbname = <<>>,
                          !.typed_name = <<>>, !.full_dbname = <<>>,
                          !.typed_confirm = <<>>, !.confirm = <<>>]
  IN  IF ~Permitted(called)
      THEN [called EXCEPT !.pc = "idle", !.printed = "not permitted"]
      ELSE [called EXCEPT !.pc = "name",
                          !.dbname = FormatDbname(dbname, d.env)]

OnNameAnyName(d, typed) ==
  [d EXCEPT !.typed_name = typed, !.full_dbname = Strip(typed),
            !.pc = "confirm"]

\* full_dbname = input(...).strip() and the comparison with dbname.
OnName(d, typed) ==
  LET read == [d EXCEPT !.typed_name = typed, !.full_dbname = Strip(typed)]
  IN  IF read.full_dbname = read.dbname
      THEN [read EXCEPT !.pc = "confirm"]
      ELSE [read EXCEPT !.pc = "idle", !.printed = "does not match"]

\* confirm = input(...).strip().upper() and the command it lets through.
OnConfirm(d, typed) ==
  LET read == [d EXCEPT !.typed_confirm = typed,
                        !.confirm = Upper(Strip(typed)), !.pc = "idle"]
  IN  IF read.confirm = <<"Y", "E", "S">>
      THEN [read EXCEPT !.commands = Append(@, DropQuery(read.dbname)),
                        !.printed = "completed"]
      ELSE [read EXCEPT !.printed = "cancelled"]

DBAInit ==
  \E env \in Environments, safe_mode \in BOOLEAN : dba = NewDBA(env, safe_mode)

\* A run that makes no MySQLDBA call.
DBAIdle == dba = NewDBA(Dev, TRUE)

DropDatabase(dbname) ==
  /\ dba.pc = "idle"
  /\ dba.calls < MaxDrops
  /\ dba' = OnDrop(dba, dbname)

InputName(typed) ==
  /\ dba.pc = "name"
  /\ dba' = OnName(dba, typed)

InputConfirm(typed) ==
  /\ dba.pc = "confirm"
  /\ dba' = OnConfirm(dba, typed)

DBAActions ==
  \/ \E dbname \in DbNames : DropDatabase(dbname)
  \/ \E typed \in TypedNames : InputName(typed)
  \/ \E typed \in TypedConfirms : InputConfirm(typed)

\* ------------------------------------------------------------------------
\* MySQLDatabase.connect and close (src/appvocai/infra/database/mysql.py)
\* ------------------------------------------------------------------------

\* MySQLDatabase.__init__: no engine, no connection, not connected.  engine
\* and connection say whether the attribute is not None.  pc, attempts,
\* started (the _start_db calls), last (how the last attempt ended), ret and
\* exc (how the call ended) describe the connect() call made last.
NewDatabase(retries) ==
  [retries |-> retries, engine |-> FALSE, connection |-> FALSE,
   is_connected |-> FALSE, isolation |-> "none", pc |-> "idle", calls |-> 0,
   autocommit |-> FALSE, attempts |-> 0, started |-> 0, last |-> "none",
   ret |-> "none", exc |-> "none"]

\* Where an attempt can fail: in create_engine, in engine.connect or in
\* execution_options; with an SQLAlchemyError or with any other exception.
Outcomes ==
  {[at |-> at, kind |-> kind] :
     at \in {"engine", "connect", "options"}, kind \in {"sql", "other"}}
  \cup {[at |-> "none", kind |-> "ok"]}

\* The operations of the try block that run in this attempt.
Runs(d, at) ==
  CASE at = "engine" -> ~d.engine
    [] at = "connect" -> ~d.connection
    [] OTHER -> TRUE

\* while attempts < retries, and the bare raise after the loop.
DbLoopTest(d) ==
  IF d.attempts < d.retries THEN [d EXCEPT !.pc = "loop"]
  ELSE [d EXCEPT !.pc = "idle", !.ret = "raised", !.exc = "RuntimeError"]

AttemptsRemainInclusive(attempts, retries) == attempts <= retries

\* if attempts < retries, in the except clause
AttemptsRemain(attempts, retries) == attempts < retries

\* connect(autocommit) up to the first test of the loop.
OnConnect(d, autocommit) ==
  DbLoopTest([d EXCEPT !.calls = @ + 1, !.autocommit = autocommit,
                       !.attempts = 0, !.started = 0, !.last = "none",
                       !.ret = "none", !.exc = "none"])

\* One pass of the loop body.
OnAttempt(d, outcome) ==
  LET counted == [d EXCEPT !.attempts = @ + 1, !.last = outcome.kind]
      created == IF outcome.at = "engine" THEN counted
                 ELSE [counted EXCEPT !.engine = TRUE]
      opened  == IF outcome.at \in {"engine", "connect"} THEN created
                 ELSE [created EXCEPT !.connection = TRUE]
  IN  IF outcome.kind = "ok"
      THEN [opened EXCEPT !.isolation = IF d.autocommit THEN "AUTOCOMMIT"
                                        ELSE "READ COMMITTED",
                          !.is_connected = TRUE,
                          !.pc = "idle", !.ret = "self"]
      ELSE IF outcome.kind = "other"
      THEN [opened EXCEPT !.pc = "idle", !.ret = "raised",
                          !.exc = "Exception"]
      ELSE LET failed == [opened EXCEPT !.is_connected = FALSE]
           IN  IF AttemptsRemain(failed.attempts, failed.retries)
               THEN DbLoopTest([failed EXCEPT !.started = @ + 1])
               ELSE [failed EXCEPT !.pc = "idle", !.ret = "raised",
                                   !.exc = "SQLAlchemyError"]

\* close()
OnClose(d) == [d EXCEPT !.connection = FALSE, !.engine = FALSE]

DBInit == \E retries \in 0..MaxDbRetries : db = NewDatabase(retries)

\* A run that makes no MySQLDatabase call.
DBIdle == db = NewDatabase(0)

Connect(autocommit) ==
  /\ db.pc = "idle"
  /\ db.calls < MaxConnects
  /\ db' = OnConnect(db, autocommit)

Attempt(outcome) ==
  /\ db.pc = "loop"
  /\ Runs(db, outcome.at)
  /\ db' = OnAttempt(db, outcome)

Close ==
  /\ db.pc = "idle"
  /\ db' = OnClose(db)

DBActions ==
  \/ \E autocommit \in BOOLEAN : Connect(autocommit)
  \/ \E outcome \in Outcomes : Attempt(outcome)
  \/ Close

\* ------------------------------------------------------------------------
\* Specifications
\* ------------------------------------------------------------------------
\* A session that has no breaker in use.
CBIdle == cb = NewBreaker(1, 1, 0, FALSE)

Init == GenInit /\ ReqInit /\ BatchIdle /\ CBIdle /\ DBAIdle /\ DBIdle

\* The generator alone (with a restart from its bookmark).
SpecGenNext == GenActions /\ UNCHANGED <<reqvars, batchvars, cb, dbvars>>

SpecGen == Init /\ [][SpecGenNext]_vars

\* One make_request coroutine alone.
SpecReqNext == ReqActions /\ UNCHANGED <<genvars, batchvars, cb, dbvars>>

SpecReq == Init /\ [][SpecReqNext]_vars

\* A generator handing out batches while a request is being fetched.
Next ==
  \/ GenNext(1) /\ UNCHANGED <<reqvars, batchvars, cb, dbvars>>
  \/ ReqActions /\ UNCHANGED <<genvars, batchvars, cb, dbvars>>

Spec == Init /\ [][Next]_vars

\* The generator and the single request of a run that uses neither.
GenIdle ==
  /\ gen = [g \in Gens |-> NoGen]
  /\ last = [g \in Gens |-> NoCall]
  /\ issued = [g \in Gens |-> <<>>]
  /\ stopped = [g \in Gens |-> FALSE]
  /\ resumed = [done |-> FALSE, bookmark |-> 0, before |-> <<>>]

\* A session on which get() is called.
SpecBatchInit ==
  /\ GenIdle
  /\ \E R \in 0..MaxBatchRetries : session = NewSession(R)
  /\ req = NewRequest
  /\ metrics = [requests_total |-> 0, requests_successful_total |-> 0]
  /\ BatchInit
  /\ CBIdle
  /\ DBAIdle
  /\ DBIdle

\* One get() call at a time on the session.
SpecBatchNext == BatchActions({1}) /\ UNCHANGED <<genvars, cb, dbvars>>

SpecBatch == SpecBatchInit /\ [][SpecBatchNext]_vars

\* Two get() calls on the same session, in progress at the same time.
SpecPipeNext == BatchActions(Calls) /\ UNCHANGED <<genvars, cb, dbvars>>

SpecPipe == SpecBatchInit /\ [][SpecPipeNext]_vars

\* The breaker alone, driven by every sequence of admits, reports and ticks.
SpecCBInit ==
  /\ GenIdle
  /\ session = NewSession(0)
  /\ req = NewRequest
  /\ metrics = [requests_total |-> 0, requests_successful_total |-> 0]
  /\ BatchIdle
  /\ CBInit
  /\ DBAIdle
  /\ DBIdle

SpecCBNext == CBActions /\ UNCHANGED <<genvars, reqvars, batchvars, dbvars>>

SpecCB == SpecCBInit /\ [][SpecCBNext]_vars

\* A breaker next to the session whose get() is called.
SpecGateInit ==
  /\ GenIdle
  /\ session = NewSession(0)
  /\ req = NewRequest
  /\ metrics = [requests_total |-> 0, requests_successful_total |-> 0]
  /\ limits = NewLimits(1, 1, TRUE)
  /\ call = [c \in Calls |-> IdleCall]
  /\ tasks = [t \in TaskIds |-> NoTask]
  /\ \E cooldown \in 1..MaxCooldown : cb = NewBreaker(1, cooldown, 0, FALSE)
  /\ DBAIdle
  /\ DBIdle

SpecGateNext ==
  \/ CBActions /\ UNCHANGED <<genvars, reqvars, batchvars, dbvars>>
  \/ BatchActions({1}) /\ UNCHANGED <<genvars, cb, dbvars>>

SpecGate == SpecGateInit /\ [][SpecGateNext]_vars

\* A MySQLDBA object on which drop_database is called.
SpecDBAInit ==
  /\ GenIdle
  /\ session = NewSession(0)
  /\ req = NewRequest
  /\ metrics = [requests_total |-> 0, requests_successful_total |-> 0]
  /\ BatchIdle
  /\ CBIdle
  /\ DBAInit
  /\ DBIdle

SpecDBANext ==
  DBAActions /\ UNCHANGED <<genvars, reqvars, batchvars, cb, db>>

SpecDBA == SpecDBAInit /\ [][SpecDBANext]_vars

\* Sessions of every configuration on which get() is called for two
\* batches, up to the point where the coroutines have taken the gate.
SpecCeilNext ==
  /\ \/ \E c \in Calls, n \in 0..MaxTasks : Get(c, n)
     \/ \E t \in TaskIds : TaskEnter(t)
  /\ UNCHANGED <<genvars, cb, dbvars>>

SpecCeil == SpecBatchInit /\ [][SpecCeilNext]_vars

\* One get() call that nobody cancels, its coroutines scheduled fairly:
\* every throttle operation, network call and sleep returns.
SpecLiveNext ==
  /\ \/ \E n \in 0..MaxTasks : Get(1, n)
     \/ \E t \in TaskIds : TaskEnter(t)
     \/ \E t \in TaskIds : TaskSend(t)
     \/ \E t \in TaskIds, resp \in Responses : TaskGet(t, resp)
     \/ \E t \in TaskIds : TaskRecv(t)
     \/ \E t \in TaskIds : TaskDelay(t)
     \/ \E t \in TaskIds : TaskJson(t)
     \/ \E t \in TaskIds : TaskWake(t)
     \/ GatherReturn(1)
     \/ GatherRaise(1)
  /\ UNCHANGED <<genvars, cb, dbvars>>

SpecLive == SpecBatchInit /\ [][SpecLiveNext]_vars /\ WF_vars(SpecLiveNext)

\* A MySQLDatabase object on which connect() and close() are called.
SpecDBInit ==
  /\ GenIdle
  /\ session = NewSession(0)
  /\ req = NewRequest
  /\ metrics = [requests_total |-> 0, requests_successful_total |-> 0]
  /\ BatchIdle
  /\ CBIdle
  /\ DBAIdle
  /\ DBInit

SpecDBNext ==
  DBActions /\ UNCHANGED <<genvars, reqvars, batchvars, cb, dba>>

SpecDB == SpecDBInit /\ [][SpecDBNext]_vars

\* ------------------------------------------------------------------------
\* Properties of RequestAppDataGen
\* ------------------------------------------------------------------------

\* The pages of a sequence of requests.
Pages(requests) == [i \in 1..Len(requests) |-> requests[i].current_page]

\* The sequence first, first + 1, ..., first + n - 1.
Consecutive(first, n) == [i \in 1..n |-> first + i - 1]

\* C1: after any sequence of next() calls on a generator constructed with
\* max_requests = M, the number of Requests it has returned is at most M.
C1_IssuedAtMostMax ==
  \A g \in Gens :
    gen[g].built => Len(issued[g]) <= gen[g].max_requests

\* C1 witness: a generator that needed two batches has returned exactly its
\* maximum.
C1_Witness ==
  /\ gen[1].max_requests = 3
  /\ gen[1].batch_size = 2
  /\ Len(issued[1]) = 3

\* C2: once next() has signalled exhaustion, the total number of Requests
\* generated over all calls equals max_requests exactly.
C2_ExactlyMaxAtExhaustion ==
  \A g \in Gens :
    stopped[g] => Len(issued[g]) = gen[g].max_requests

\* C2 witness: a generator with max_requests = 3 and batch_size = 2 has been
\* driven to StopIteration.
C2_Witness ==
  /\ stopped[1]
  /\ gen[1].max_requests = 3
  /\ gen[1].batch_size = 2
  /\ last[1].kind = "stop"

\* C3: the pages issued by one generator over all its batches are the
\* consecutive integers from start_page on: no page twice, no gap and no
\* overlap between successive batches.
C3_PagesConsecutive ==
  \A g \in Gens :
    gen[g].built =>
      Pages(issued[g]) = Consecutive(gen[g].start_page, Len(issued[g]))

\* C3 witness: a second non-empty batch has been returned.
C3_Witness ==
  /\ last[1].kind = "batch"
  /\ last[1].count_before > 0
  /\ Len(last[1].requests) > 0
  /\ gen[1].start_page = 1

\* C4: a next() call that returns a batch returns exactly
\* min(batch_size, max_requests - issued) requests, for consecutive pages
\* from the cursor held before the call, and advances the cursor and the
\* issued count by that number.
C4_BatchShape ==
  \A g \in Gens :
    last[g].kind = "batch" =>
      LET n == Min(gen[g].batch_size,
                   gen[g].max_requests - last[g].count_before)
      IN  /\ Len(last[g].requests) = n
          /\ Pages(last[g].requests) = Consecutive(last[g].cursor_before, n)
          /\ gen[g].current_page = last[g].cursor_before + n
          /\ gen[g].request_count = last[g].count_before + n

\* C4 witness: a batch cut short by the remaining budget.
C4_Witness ==
  /\ last[1].kind = "batch"
  /\ last[1].count_before = 2
  /\ gen[1].batch_size = 2
  /\ gen[1].max_requests = 3
  /\ Len(last[1].requests) = 1

\* C5 (as claimed): every returned batch has at most batch_size requests and
\* is not empty while issued < max_requests, for every batch_size and
\* max_requests.
C5_Claim ==
  \A g \in Gens :
    last[g].kind = "batch" =>
      /\ Len(last[g].requests) <= gen[g].batch_size
      /\ (last[g].count_before < gen[g].max_requests
            => Len(last[g].requests) > 0)

\* C6: exhaustion is terminal: after StopIteration every later next() call
\* raises StopIteration again and leaves the cursor and the issued count as
\* they were.
C6_ExhaustionTerminal ==
  [][\A g \in Gens :
       stopped[g] => /\ stopped'[g]
                     /\ gen'[g] = gen[g]
                     /\ last'[g].kind = "stop"
                     /\ issued'[g] = issued[g]]_vars

\* C6 witness: a generator that issued its three requests has raised
\* StopIteration.
C6_Witness ==
  /\ stopped[1]
  /\ last[1].kind = "stop"
  /\ Len(issued[1]) = 3
  /\ gen[1].current_page = gen[1].start_page + 3

\* C7: a generator constructed with start_page = bookmark b of a generator
\* started at s issues page b first and no page of [s, b); the pages issued
\* before the bookmark was read followed by the pages of the new generator
\* are the consecutive integers from s on.
C7_RestartFromBookmark ==
  resumed.done =>
    /\ gen[2].start_page = resumed.bookmark
    /\ Pages(resumed.before) =
         Consecutive(gen[1].start_page, Len(resumed.before))
    /\ resumed.bookmark = gen[1].start_page + Len(resumed.before)
    /\ Pages(issued[2]) = Consecutive(resumed.bookmark, Len(issued[2]))
    /\ Pages(resumed.before \o issued[2]) =
         Consecutive(gen[1].start_page, Len(resumed.before) + Len(issued[2]))

\* C7 witness: the first generator had issued pages when the bookmark was
\* read and the second one has issued pages too.
C7_Witness ==
  /\ resumed.done
  /\ Len(resumed.before) >= 2
  /\ Len(issued[2]) >= 2
  /\ gen[1].start_page = 1

\* C8: the cursor never decreases and moves only in a next() call that
\* returns a batch: no step of a fetch and no exhausted next() call moves it.
C8_CursorMovesOnlyOnBatch ==
  [][\A g \in Gens :
       gen[g].built =>
         /\ gen'[g].current_page >= gen[g].current_page
         /\ (gen'[g].current_page # gen[g].current_page =>
               /\ last'[g].kind = "batch"
               /\ last'[g].cursor_before = gen[g].current_page
               /\ gen'[g].current_page =
                    gen[g].current_page + Len(last'[g].requests)
               /\ UNCHANGED reqvars)]_vars

\* C8 witness: the cursor has advanced, the generator is exhausted, and a
\* fetch has gone through a failure, a retry and a success.
C8_Witness ==
  /\ gen[1].current_page > gen[1].start_page
  /\ stopped[1]
  /\ req.result.kind = "success"
  /\ req.retries >= 1

\* ------------------------------------------------------------------------
\* Properties of ASession.make_request
\* ------------------------------------------------------------------------

IsAttemptOrSleep(ev) == ev \in {"get", "sleep"}

\* C9 (as claimed): when every attempt of a request fails with status 500,
\* make_request makes exactly retries attempts and then returns a Failure
\* carrying 500; it does not raise.
C9_Claim ==
  (/\ req.pc = "done"
   /\ req.responses # <<>>
   /\ \A i \in 1..Len(req.responses) : req.responses[i] = Err500)
  => /\ req.attempts = session.retries
     /\ req.result.kind = "failure"
     /\ req.result.status = 500

\* C10: when the first k attempts fail and attempt k+1 gets a 2xx response
\* with a JSON body, make_request returns the payload after exactly k+1
\* attempts and exactly k sleeps of 2^1, ..., 2^k, one between each two
\* consecutive attempts.
C10_SuccessAfterBackoff ==
  (/\ req.pc = "done"
   /\ req.responses # <<>>
   /\ req.responses[Len(req.responses)] = Ok200)
  => LET k == Len(req.responses) - 1
     IN  /\ k < session.retries
         /\ req.result.kind = "success"
         /\ req.attempts = k + 1
         /\ req.sleeps = [i \in 1..k |-> 2 ^ i]
         /\ SelectSeq(req.trace, IsAttemptOrSleep) =
              [i \in 1..(2 * k + 1) |->
                 IF i % 2 = 1 THEN "get" ELSE "sleep"]

\* C10 witness: responses 500, 500, 200 with retries = 3.
C10_Witness ==
  /\ req.pc = "done"
  /\ session.retries = 3
  /\ req.responses = <<Err500, Err500, Ok200>>
  /\ req.result.kind = "success"
  /\ req.sleeps = <<2, 4>>

\* ------------------------------------------------------------------------
\* Properties of ASessionAppData.get
\* ------------------------------------------------------------------------

\* The number of coroutines of get() call c that hold its semaphore.
Held(c) == Cardinality({t \in ChildrenOf(c) : tasks[t].r.gate = "held"})

\* The number of coroutines of the session that hold a semaphore.
HeldInSession == Cardinality({t \in TaskIds : tasks[t].r.gate = "held"})

\* C11 (as claimed): a get() call that ends without being cancelled returns
\* its response normally, the requests that failed on every attempt carrying
\* Failure outcomes and the others their payloads; it never raises.
C11_Claim ==
  \A c \in Calls :
    (limits.has_request /\ call[c].state \in {"returned", "raised"})
    => /\ call[c].state = "returned"
       /\ Len(call[c].results) = Len(call[c].param_list)
       /\ \A i \in 1..Len(call[c].results) :
            call[c].results[i].result.kind \in {"success", "failure"}

\* C12: in the response get() returns there is one outcome per request and
\* the i-th outcome is the one of the i-th request, in whatever order the
\* coroutines completed.
C12_OutcomesAligned ==
  \A c \in Calls :
    call[c].state = "returned" =>
      /\ Len(call[c].results) = Len(call[c].param_list)
      /\ \A i \in 1..Len(call[c].results) :
           /\ call[c].results[i].params = call[c].param_list[i]
           /\ call[c].results[i].result = tasks[call[c].children[i]].r.result

\* C12 witness: get() has returned two outcomes whose coroutines completed in
\* the reverse of the request order.
C12_Witness ==
  /\ call[1].state = "returned"
  /\ Len(call[1].results) = 2
  /\ call[1].completed = <<call[1].children[2], call[1].children[1]>>

C14_Claim == HeldInSession <= limits.max_concurrency

\* The calls make_request has made so far, backoff sleeps left out.
IsThrottleOrGet(ev) == ev # "sleep"

\* C15 (as claimed): every attempt, failed ones and retries included, calls
\* send, the network, recv and delay in this order, so the calls of a request
\* are whole rounds of the four, the last one whole before a sleep or the end.
C15_Claim ==
  LET calls == SelectSeq(req.trace, IsThrottleOrGet)
      round == <<"send", "get", "recv", "delay">>
  IN  /\ \A i \in 1..Len(calls) : calls[i] = round[((i - 1) % 4) + 1]
      /\ req.pc \in {"sleep", "loop", "done"} => Len(calls) % 4 = 0

\* C16: once get() has been cancelled, the only step one of its coroutines
\* still takes is to end with CancelledError: it starts no attempt (no
\* throttle send, no network call), it gives back the semaphore slot it held,
\* and when all have ended the semaphore is back at its full value.
C16_CancelStopsAttempts ==
  [][\A c \in Calls :
       call[c].state = "cancelled" =>
         /\ \A t \in ChildrenOf(c) :
              tasks'[t] # tasks[t] =>
                /\ tasks'[t].r.pc = "done"
                /\ tasks'[t].r.gate # "held"
                /\ tasks'[t].r.result.exc = "CancelledError"
                /\ metrics' = metrics
         /\ call'[c].sem + Cardinality({t \in ChildrenOf(c) :
                                          tasks'[t].r.gate = "held"})
              = limits.max_concurrency]_vars

\* C16 witness: a cancelled batch in which one coroutine was cancelled while
\* it held the gate and another while it waited for it; all have ended and
\* the semaphore is full again.
C16_Witness ==
  /\ call[1].state = "cancelled"
  /\ \A t \in ChildrenOf(1) : tasks[t].r.pc = "done"
  /\ \E t \in ChildrenOf(1) :
       tasks[t].r.result.exc = "CancelledError" /\ tasks[t].r.gate = "released"
  /\ \E t \in ChildrenOf(1) :
       tasks[t].r.result.exc = "CancelledError" /\ tasks[t].r.gate = "out"
  /\ call[1].sem = limits.max_concurrency

\* ------------------------------------------------------------------------
\* Properties of the CircuitBreaker
\* ------------------------------------------------------------------------

\* The step is the report of a batch that was admitted in CLOSED.
ReportStep == cb'.op = "report" /\ cb'.pending = cb.pending - 1

\* The step is the report of the trial batch.
TrialStep == cb.trial = "admitted" /\ cb'.op = "trial" /\ cb'.trial = "none"

\* C17: a CLOSED breaker moves to OPEN exactly on the report that makes the
\* bad batches in a row as many as the limit: no other step opens it, that
\* report always does, and while it is CLOSED the counter is the number of
\* bad batches in a row and is below the limit.
C17_OpensAtLimit ==
  [][/\ (cb.state = CLOSED /\ cb'.state = OPEN)
          => (ReportStep /\ TrailingBad(cb'.history) = cb.limit)
     /\ (cb.state = CLOSED /\ ReportStep
           /\ TrailingBad(cb'.history) >= cb.limit)
          => cb'.state = OPEN
     /\ cb'.state = CLOSED
          => /\ cb'.failures = TrailingBad(cb'.history)
             /\ cb'.failures < cb'.limit]_vars

\* C17 witness: a breaker with limit 3 that the third bad report in a row
\* has just opened.
C17_Witness ==
  /\ cb.limit = 3
  /\ cb.state = OPEN
  /\ cb.op = "report"
  /\ TrailingBad(cb.history) = 3
  /\ cb.timer = 0

\* C18: in CLOSED the report of a batch whose failure rate does not exceed
\* the threshold sets the counter to zero and leaves the breaker CLOSED, and
\* a breaker that never saw 'limit' bad batches in a row is neither OPEN nor
\* HALF_OPEN.
C18_GoodBatchResets ==
  [][/\ (cb.state = CLOSED /\ ReportStep
           /\ ~Exceeds(cb'.result.f, cb'.result.n, cb.threshold))
          => (cb'.failures = 0 /\ cb'.state = CLOSED)
     /\ cb'.worst < cb'.limit => cb'.state \notin {OPEN, HALF_OPEN}]_vars

\* C18 witness: a breaker with limit 3 that saw two bad batches in a row and
\* then a good one: it is CLOSED with its counter at zero.
C18_Witness ==
  /\ cb.limit = 3
  /\ cb.state = CLOSED
  /\ cb.op = "report"
  /\ cb.worst = 2
  /\ cb.failures = 0
  /\ Len(cb.history) = 3
  /\ ~cb.history[3]

\* C19: the breaker becomes HALF_OPEN exactly when the cool-down has
\* elapsed; while it is HALF_OPEN admit() has answered Allowed at most once,
\* and once exactly when the trial batch is out; the report of a fully
\* successful trial makes it CLOSED with the counter at zero, the report of
\* a trial with a failure makes it OPEN with the cool-down started again.
C19_OneTrial ==
  [][/\ (cb.state = OPEN /\ cb'.state = HALF_OPEN) => cb'.timer = cb.wait
     /\ cb'.state = OPEN => cb'.timer < cb'.wait
     /\ cb'.state = HALF_OPEN
          => /\ cb'.allowed <= 1
             /\ cb'.trial = "admitted" <=> cb'.allowed = 1
     /\ (cb.state = HALF_OPEN /\ TrialStep)
          => IF cb'.result.f = 0
             THEN cb'.state = CLOSED /\ cb'.failures = 0
             ELSE cb'.state = OPEN /\ cb'.timer = 0]_vars

\* C19 witness: a breaker that was opened, let one trial batch through after
\* the cool-down, answered Blocked to the next admit() and was closed by the
\* successful trial.
C19_Witness ==
  /\ cb.state = CLOSED
  /\ cb.op = "trial"
  /\ cb.verdict = "Blocked"
  /\ cb.result.f = 0
  /\ cb.failures = 0
  /\ cb.worst = cb.limit

\* C20 (as claimed): while the breaker is OPEN no batch is executed: get()
\* is not called and no request of a batch is sent.
C20_Claim ==
  [][cb.state = OPEN =>
       /\ \A c \in Calls : call[c].state = "idle" => call'[c].state = "idle"
       /\ metrics'.requests_total = metrics.requests_total]_vars

IsYes(str) ==
  /\ Len(str) = 3
  /\ str[1] \in {"y", "Y"}
  /\ str[2] \in {"e", "E"}
  /\ str[3] \in {"s", "S"}

\* C22: a step of drop_database executes a command only if the object is
\* not in safe mode in 'prod', the name the user typed (as input().strip()
\* returns it) is the database name formatted with the environment, and the
\* confirmation typed is YES in any case; the command is then the one DROP
\* DATABASE of that database, and every other step executes none.
C22_DropOnlyWhenConfirmed ==
  [][dba'.commands # dba.commands =>
       /\ ~(dba.safe_mode /\ dba.env = Prod)
       /\ Strip(dba'.typed_name) = dba.arg \o <<"_">> \o dba.env
       /\ IsYes(Strip(dba'.typed_confirm))
       /\ dba'.commands =
            Append(dba.commands,
                   [statement |-> "DROP DATABASE IF EXISTS",
                    dbname |-> dba.arg \o <<"_">> \o dba.env])]_vars

\* C22 witness: in 'prod' with safe mode off, the database was dropped after
\* the user typed its full name and a lower-case yes.
C22_Witness ==
  /\ dba.env = Prod
  /\ ~dba.safe_mode
  /\ dba.typed_confirm = <<"y", "e", "s">>
  /\ Len(dba.commands) = 1
  /\ dba.commands[1].dbname = <<"d", "b", "_", "p", "r", "o", "d">>

\* ------------------------------------------------------------------------
\* Properties of the retry loop and of the metrics
\* ------------------------------------------------------------------------

\* C23 (as claimed): make_request sleeps in backoff only while attempts
\* remain, so a request whose R attempts have all failed has slept R - 1
\* times.
C23_Claim ==
  /\ req.pc = "sleep" => req.retries < session.retries
  /\ (req.pc = "done" /\ req.result.kind # "success" /\ req.attempts >= 1)
       => Len(req.sleeps) = session.retries - 1

\* The status a Failure carries for the response of the last attempt.
FailureStatus(resp) ==
  IF resp.kind = "http" /\ resp.status >= 400 THEN resp.status ELSE 0

\* C24 (as claimed): a request that has used up its attempts ends with a
\* Failure outcome that carries the status of the last error, for a 4xx, a
\* 5xx and an error without status code alike.
C24_Claim ==
  (req.pc = "done" /\ req.result.kind # "success" /\ req.attempts >= 1)
    => /\ req.result.kind = "failure"
       /\ req.result.status = FailureStatus(req.responses[Len(req.responses)])

Count(seq, Test(_)) == Len(SelectSeq(seq, Test))

IsSend(ev) == ev = "send"

Is2xx(resp) == resp.kind = "http" /\ resp.status < 400

\* C26 (as claimed): requests_total is the number of throttle sends that
\* have returned, requests_successful_total the number of attempts that
\* ended in a 2xx response, hence never more than requests_total and, for a
\* single request, never more than 1.
C26_Claim ==
  /\ metrics.requests_total = Count(req.trace, IsSend)
  /\ metrics.requests_successful_total =
       Count(req.responses, Is2xx)
         - (IF req.pc \in {"recv", "delay"} THEN 1 ELSE 0)
  /\ metrics.requests_successful_total <= metrics.requests_total
  /\ metrics.requests_successful_total <= 1

Offsets(requests) == [i \in 1..Len(requests) |-> Params(requests[i]).offset]

\* C28: the requests of one generator carry offsets that are multiples of
\* limit, the i-th being (start_page + i - 1) * limit: they start at
\* start_page * limit and increase strictly, so no two are equal.
C28_OffsetsIncrease ==
  \A g \in Gens :
    LET offs == Offsets(issued[g])
    IN  /\ \A i \in 1..Len(offs) :
             /\ offs[i] % Params(issued[g][i]).limit = 0
             /\ offs[i] = (gen[g].start_page + i - 1)
                         * Params(issued[g][i]).limit
        /\ \A i, j \in 1..Len(offs) : i < j => offs[i] < offs[j]

\* C28 witness: a generator started at page 1 has issued requests with
\* offsets 200, 400 and 600, the last one in a batch of its own.
C28_Witness ==
  /\ gen[1].start_page = 1
  /\ Offsets(issued[1]) = <<200, 400, 600>>
  /\ Len(last[1].requests) = 1

\* C29: the bookmark of a generator is its start page plus the number of
\* requests it has issued, and once it has raised StopIteration the bookmark
\* is start page plus max_requests.
C29_BookmarkIsStartPlusCount ==
  \A g \in Gens :
    gen[g].built =>
      /\ Bookmark(gen[g]) = gen[g].start_page + Len(issued[g])
      /\ Bookmark(gen[g]) = gen[g].start_page + gen[g].request_count
      /\ stopped[g] =>
           Bookmark(gen[g]) = gen[g].start_page + gen[g].max_requests

\* C29 witness: a generator with start page 1 and max_requests 3 has raised
\* StopIteration with its bookmark at 4.
C29_Witness ==
  /\ stopped[1]
  /\ gen[1].start_page = 1
  /\ gen[1].max_requests = 3
  /\ Bookmark(gen[1]) = 4

\* C30: a coroutine takes the gate once, on entering, holds it at every
\* point of its attempts and backoff sleeps, and gives it back when it ends,
\* however it ends; it never takes it again; when every coroutine of a
\* batch has ended the semaphore has all its slots.
C30_GateOncePerRequest ==
  [][\A t \in TaskIds :
       LET c == tasks'[t].owner
           r == tasks'[t].r
       IN  c # 0 =>
             /\ r.pc = "start" => r.gate = "out"
             /\ r.pc \in {"loop", "send", "get", "recv", "delay", "json",
                          "sleep"} => r.gate = "held"
             /\ r.pc = "done" => r.gate \in {"released", "out"}
             /\ (r.pc = "done" /\ r.result.exc # "CancelledError")
                  => r.gate = "released"
             /\ tasks[t].owner = c =>
                  /\ tasks[t].r.gate = "held" => r.gate \in {"held", "released"}
                  /\ tasks[t].r.gate = "released" => r.gate = "released"
                  /\ tasks[t].r.pc = "done" => r.gate = tasks[t].r.gate
             /\ (\A u \in ChildrenOf(c) : tasks'[u].r.pc = "done")
                  => call'[c].sem = limits.max_concurrency]_vars

\* C30 witness: a batch of two requests on a gate of size 1 has ended, one
\* request with its payload and one with an exception, and the semaphore has
\* its slot back.
C30_Witness ==
  /\ limits.max_concurrency = 1
  /\ Len(call[1].children) = 2
  /\ \A t \in ChildrenOf(1) : tasks[t].r.pc = "done" /\ tasks[t].r.gate = "released"
  /\ \E t \in ChildrenOf(1) : tasks[t].r.result.kind = "success"
  /\ \E t \in ChildrenOf(1) : tasks[t].r.result.exc = "UnboundLocalError"
  /\ call[1].sem = 1

\* ------------------------------------------------------------------------
\* Properties of the attempts of a request and of termination
\* ------------------------------------------------------------------------

\* C31 (as claimed): a request makes at most 'retries' network calls; with
\* retries <= 0 it ends without a throttle send and without a network call,
\* and its outcome is a Failure, not an exception.
C31_Claim ==
  /\ req.attempts <= session.retries
  /\ (session.retries <= 0 /\ req.pc = "done")
       => /\ req.trace = <<>>
          /\ req.attempts = 0
          /\ req.result.kind = "failure"

\* C32 (as claimed): a get() call that is in progress eventually returns its
\* response, every request of the batch resolved to its payload or to a
\* Failure.
C32_Claim ==
  (limits.has_request /\ call[1].state = "running")
    ~> /\ call[1].state = "returned"
       /\ \A t \in ChildrenOf(1) :
            /\ tasks[t].r.pc = "done"
            /\ tasks[t].r.result.kind \in {"success", "failure"}

\* ------------------------------------------------------------------------
\* Properties of MySQLDatabase
\* ------------------------------------------------------------------------

\* C33: connect() makes at most 'retries' attempts; it calls _start_db only
\* in an attempt that failed with a database error while another attempt
\* remains; and it ends either returning self, connected, right after a
\* successful attempt, or raising: with retries = 0 it raises without an
\* attempt.
C33_ConnectReturnsConnected ==
  [][/\ db'.attempts <= db'.retries
     /\ (db'.calls = db.calls /\ db'.started # db.started)
          => /\ db'.started = db.started + 1
             /\ db'.attempts = db.attempts + 1
             /\ db'.last = "sql"
             /\ db'.attempts < db'.retries
     /\ (db'.ret = "self" /\ db.ret # "self")
          => /\ db'.is_connected
             /\ db'.last = "ok"
             /\ db'.attempts = db.attempts + 1
             /\ db'.connection /\ db'.engine
     /\ (db'.pc = "idle" /\ db'.calls > 0) => db'.ret \in {"self", "raised"}
     /\ (db'.calls # db.calls /\ db'.retries <= 0)
          => (db'.ret = "raised" /\ db'.attempts = 0)]_vars

\* C33 witness: a connect() call with retries = 2 whose first attempt failed,
\* which started the database and returned self on the second attempt.
C33_Witness ==
  /\ db.retries = 2
  /\ db.attempts = 2
  /\ db.started = 1
  /\ db.ret = "self"
  /\ db.is_connected

\* C34 (as claimed): whenever _is_connected is True the connection and the
\* engine are not None, so after close() _is_connected is False.
C34_Claim == db.is_connected => (db.connection /\ db.engine)

====
